---- MODULE Spec2Model ----
(***************************************************************************)
(* Model of src/getifaddrs.rs: the POSIX and the Windows backend of        *)
(* getifaddrs(), the sockaddr decoder they use, and the ownership of the   *)
(* OS list / heap buffer during one call.                                  *)
(***************************************************************************)
EXTENDS Integers, Sequences, FiniteSets, TLC

(***************************************************************************)
(* Bounds of the model.                                                    *)
(***************************************************************************)
\* longest interface list (POSIX) / adapter list (Windows) the OS returns
MaxLen == 2
\* Windows: the buffers one call may allocate before the model stops following it
MaxAllocs == 20

(***************************************************************************)
(* Machine arithmetic.                                                     *)
(***************************************************************************)
\* a u16 (one s6_addr group) is a number below U16
U16 == 2 ^ 16

\* x >> n on a u16
Shr(x, n) == x \div (2 ^ n)

RECURSIVE BitAnd(_, _)
\* x & y on non-negative values
BitAnd(x, y) ==
    IF x = 0 \/ y = 0 THEN 0
    ELSE (IF x % 2 = 1 /\ y % 2 = 1 THEN 1 ELSE 0) + 2 * BitAnd(x \div 2, y \div 2)

RECURSIVE BitOr(_, _)
\* x | y on non-negative values
BitOr(x, y) ==
    IF x = 0 THEN y
    ELSE IF y = 0 THEN x
    ELSE (IF x % 2 = 1 \/ y % 2 = 1 THEN 1 ELSE 0) + 2 * BitOr(x \div 2, y \div 2)

\* x << 8 in a 16-bit register
Shl8u16(x) == (x * 256) % U16

\* a u32 (s_addr, and c_ulong on Windows) is the pair <<high 16 bits, low 16 bits>>
K32(n) == <<0, n>>

\* (x as u8) of a u32 below 256
Low(x) == x[2]

\* x >> n on a u32, n < 32
Shr32(x, n) ==
    IF n >= 16 THEN <<0, x[1] \div (2 ^ (n - 16))>>
    ELSE <<x[1] \div (2 ^ n), (x[2] \div (2 ^ n)) + (x[1] % (2 ^ n)) * (2 ^ (16 - n))>>

\* x & y on u32
And32(x, y) == <<BitAnd(x[1], y[1]), BitAnd(x[2], y[2])>>

\* x >= y on u32
Geq32(x, y) == x[1] > y[1] \/ (x[1] = y[1] /\ x[2] >= y[2])

\* x * 2 overflows a u32
DoubleOverflows(x) == x[1] >= U16 \div 2

\* the size left as it is where the code doubles it
Double_Same(x) == x

\* x * 2 in a u32, wrapping
Double(x) == <<(2 * x[1] + (2 * x[2]) \div U16) % U16, (2 * x[2]) % U16>>

(***************************************************************************)
(* Address families and values.                                            *)
(***************************************************************************)
AF_INET == 2
AF_INET6 == 10
Zero8 == <<0, 0, 0, 0, 0, 0, 0, 0>>

\* Option<IpAddr>: None, Some(V4(a,b,c,d)), Some(V6(g0..g7))
None == [tag |-> "None", seg |-> <<>>]
V4(a, b, c, d) == [tag |-> "V4", seg |-> <<a, b, c, d>>]
V6(g) == [tag |-> "V6", seg |-> g]

\* a sockaddr pointer: null, or the structure it points to.  s_addr is the
\* u32 read from sockaddr_in, s6_addr the eight u16 read from sockaddr_in6.
NullPtr == [isnull |-> TRUE, sa_family |-> 0, s_addr |-> K32(0), s6_addr |-> Zero8]
SockIn(s) == [isnull |-> FALSE, sa_family |-> AF_INET, s_addr |-> s, s6_addr |-> Zero8]
SockIn6(g) == [isnull |-> FALSE, sa_family |-> AF_INET6, s_addr |-> K32(0), s6_addr |-> g]
SockOther(f) == [isnull |-> FALSE, sa_family |-> f, s_addr |-> K32(0), s6_addr |-> Zero8]

\* a group taken as stored, its two bytes not exchanged
SwapGroup_NoSwap(w) == w

\* one byte-swapped group, as both backends compute it
SwapGroup(w) == BitOr(Shl8u16(BitAnd(w, 255)), BitAnd(Shr(w, 8), 255))

\* the four octets taken from the most significant byte down
OctetsOf_Reversed(s) ==
    V4(Low(And32(Shr32(s, 24), K32(255))), Low(And32(Shr32(s, 16), K32(255))),
       Low(And32(Shr32(s, 8), K32(255))), Low(And32(Shr32(s, 0), K32(255))))

\* the four octets both backends build from s_addr
OctetsOf(s) ==
    V4(Low(And32(Shr32(s, 0), K32(255))), Low(And32(Shr32(s, 8), K32(255))),
       Low(And32(Shr32(s, 16), K32(255))), Low(And32(Shr32(s, 24), K32(255))))

\* the eight groups both backends build from s6_addr
GroupsOf(g) == V6([i \in 1..8 |-> SwapGroup(g[i])])

\* getifaddrs_posix::sockaddr_to_ipaddr.  The value of the block
\* `if s6_addr[0]==0x80fe { None }` is not returned: control falls through
\* to the Some(...) that follows it.
sockaddr_to_ipaddr(sockaddr) ==
    IF sockaddr.isnull THEN None
    ELSE IF sockaddr.sa_family = AF_INET THEN OctetsOf(sockaddr.s_addr)
    ELSE IF sockaddr.sa_family = AF_INET6 THEN GroupsOf(sockaddr.s6_addr)
    ELSE None

\* IfAddr::new(): every address field is 0.0.0.0
Unspecified == V4(0, 0, 0, 0)

(***************************************************************************)
(* Interface names.                                                        *)
(***************************************************************************)
RECURSIVE CStrLen(_, _)
\* number of bytes before the first 0 of buf, counted from position i
CStrLen(buf, i) ==
    IF i > Len(buf) \/ buf[i] = 0 THEN 0 ELSE 1 + CStrLen(buf, i + 1)

\* CStr::from_ptr(p).to_bytes(): the bytes up to, not including, the first 0
CStrBytes(buf) == SubSeq(buf, 1, CStrLen(buf, 1))

IsCont(b) == b >= 128 /\ b <= 191

RECURSIVE Utf8Valid(_, _)
\* str::from_utf8(b[i..]).is_ok()
Utf8Valid(b, i) ==
    IF i > Len(b) THEN TRUE
    ELSE LET c == b[i]
             n == Len(b)
             c2 == IF i + 1 <= n THEN b[i + 1] ELSE 0
             c3 == IF i + 2 <= n THEN b[i + 2] ELSE 0
             c4 == IF i + 3 <= n THEN b[i + 3] ELSE 0
         IN  IF c < 128 THEN Utf8Valid(b, i + 1)
             ELSE IF c >= 194 /\ c <= 223
                  THEN IsCont(c2) /\ Utf8Valid(b, i + 2)
             ELSE IF c >= 224 /\ c <= 239
                  THEN /\ IF c = 224 THEN c2 >= 160 /\ c2 <= 191
                          ELSE IF c = 237 THEN c2 >= 128 /\ c2 <= 159
                          ELSE IsCont(c2)
                       /\ IsCont(c3)
                       /\ Utf8Valid(b, i + 3)
             ELSE IF c >= 240 /\ c <= 244
                  THEN /\ IF c = 240 THEN c2 >= 144 /\ c2 <= 191
                          ELSE IF c = 244 THEN c2 >= 128 /\ c2 <= 143
                          ELSE IsCont(c2)
                       /\ IsCont(c3)
                       /\ IsCont(c4)
                       /\ Utf8Valid(b, i + 4)
             ELSE FALSE

\* an IfAddr value
IfAddr(name, addr, netmask, broadcast) ==
    [name |-> name, addr |-> addr, netmask |-> netmask, broadcast |-> broadcast]

(***************************************************************************)
(* What the OS can hand to a call.                                         *)
(***************************************************************************)
\* s_addr as a little-endian host reads the four bytes a.b.c.d from memory
InAddr(a, b, c, d) == <<c + 256 * d, a + 256 * b>>

\* one s6_addr group as a little-endian host reads the two bytes of group w
In6Group(w) == (w % 256) * 256 + (w \div 256)

\* sockaddr_in6 holding the address whose first, second and last groups are
\* g0, g1, g7 and whose other groups are 0
In6(g0, g1, g7) ==
    SockIn6(<<In6Group(g0), In6Group(g1), 0, 0, 0, 0, 0, In6Group(g7)>>)

\* null-terminated name buffers: "lo", "", "e\xC3\xA9" (valid UTF-8), "\xFF"
NameLo == <<108, 111, 0>>
NameEmpty == <<0>>
NameAccent == <<101, 195, 169, 0>>
NameBad == <<255, 0>>

\* an ifaddrs node
PosixIf(name, flags, addr, netmask, ifu) ==
    [ifa_name |-> name, ifa_flags |-> flags, ifa_addr |-> addr,
     ifa_netmask |-> netmask, ifa_ifu |-> ifu]

\* the ifaddrs nodes the OS list is built from
PosixRecords ==
    { PosixIf(NameLo, 9, SockIn(InAddr(127, 0, 0, 1)), SockIn(InAddr(255, 0, 0, 0)),
              SockIn(InAddr(127, 0, 0, 1))),
      PosixIf(NameLo, 9, In6(0, 0, 1), In6(65535, 65535, 65535), NullPtr),
      PosixIf(NameAccent, 3, SockIn(InAddr(192, 168, 1, 1)),
              SockIn(InAddr(255, 255, 255, 0)), SockIn(InAddr(192, 168, 1, 255))),
      PosixIf(NameAccent, 2, SockIn(InAddr(10, 0, 0, 2)), NullPtr, NullPtr),
      PosixIf(NameAccent, 1, SockIn(InAddr(10, 0, 0, 3)), SockOther(17),
              SockIn(InAddr(10, 0, 0, 255))),
      PosixIf(NameAccent, 3, SockIn(InAddr(169, 254, 1, 1)),
              SockIn(InAddr(255, 255, 0, 0)), SockIn(InAddr(169, 254, 255, 255))),
      PosixIf(NameAccent, 1, In6(65152, 0, 1), In6(65535, 65535, 0), NullPtr),
      PosixIf(NameAccent, 1, In6(65168, 0, 1), In6(65535, 65535, 0), NullPtr),
      PosixIf(NameAccent, 3, In6(8193, 3512, 1), In6(65535, 65535, 0), SockOther(17)),
      PosixIf(NameLo, 3, NullPtr, NullPtr, NullPtr),
      PosixIf(NameLo, 3, SockOther(17), NullPtr, NullPtr),
      PosixIf(NameBad, 3, SockIn(InAddr(10, 0, 0, 4)), SockIn(InAddr(255, 0, 0, 0)),
              NullPtr),
      PosixIf(NameEmpty, 3, SockIn(InAddr(10, 0, 0, 5)), SockIn(InAddr(255, 0, 0, 0)),
              NullPtr) }

\* an IP_ADAPTER_ADDRESSES node; FirstUnicastAddress is the list of the
\* lpSockaddr pointers of its IP_ADAPTER_UNICAST_ADDRESS nodes
Adapter(name, unicast) == [AdapterName |-> name, FirstUnicastAddress |-> unicast]

\* the adapters the OS list is built from
WinRecords ==
    { Adapter(NameLo, <<SockIn(InAddr(127, 0, 0, 1)), In6(0, 0, 1)>>),
      Adapter(NameAccent, <<SockIn(InAddr(192, 168, 1, 1)), In6(8193, 3512, 1)>>),
      Adapter(NameAccent, <<SockIn(InAddr(169, 254, 1, 1)), SockIn(InAddr(10, 0, 0, 2))>>),
      Adapter(NameAccent, <<In6(65152, 0, 1), NullPtr, In6(65168, 0, 1)>>),
      Adapter(NameAccent, <<SockOther(17), SockIn(InAddr(10, 0, 0, 3))>>),
      Adapter(NameLo, <<>>),
      Adapter(NameBad, <<>>),
      Adapter(NameBad, <<SockIn(InAddr(10, 0, 0, 4))>>),
      Adapter(NameEmpty, <<SockIn(InAddr(10, 0, 0, 5))>>) }

\* the lists of at most n nodes over S
ListsUpTo(S, n) == UNION { [1..k -> S] : k \in 0..n }

\* the return codes of the POSIX getifaddrs call (a c_int): success, the
\* documented failure, and another non-zero value
PosixRetCodes == {0, -1, 1}

\* the sizes (bytes) the OS can need for the adapter list: 9000, 40000,
\* 1500000000, 2^31 - 1, 2^31, 3000000000 and 4000000000
RequiredSizes ==
    {K32(9000), K32(40000), <<22888, 12032>>, <<32767, 65535>>, <<32768, 0>>,
     <<45776, 24064>>, <<61035, 10240>>}

ERROR_SUCCESS == 0
ERROR_BUFFER_OVERFLOW == 111
\* a return code that is neither of the two (ERROR_INVALID_PARAMETER)
ERROR_OTHER == 87

(***************************************************************************)
(* State of one getifaddrs() call.                                         *)
(***************************************************************************)
VARIABLES
    backend,     \* "posix" or "windows": the backend the build selected
    required,    \* Windows: the buffer size the OS needs for its list
    reports,     \* Windows: the OS stores that size in buffersize when the buffer is too small
    pc,          \* position of the call
    retcode,     \* the last return code of the OS call
    ifaddrs,     \* the list the local `ifaddrs` points to (the OS chose it)
    idx,         \* nodes of that list `_ifaddr` has visited
    aidx,        \* Windows: unicast nodes of the current adapter `addr` has visited
    ret,         \* the vector being built
    buffersize,  \* Windows: the c_ulong passed to the OS by reference
    allocsize,   \* Windows: the size of the latest malloc
    acquired,    \* OS lists / heap buffers obtained so far
    released,    \* calls of freeifaddrs / free so far
    live,        \* OS lists / heap buffers obtained and not yet released
    panic,       \* why the call ended abnormally, "" if it did not
    dec_in,      \* the decoder on its own: its argument
    dec_out      \* the decoder on its own: its result

callvars == <<backend, required, reports, pc, retcode, ifaddrs, idx, aidx, ret,
              buffersize, allocsize, acquired, released, live, panic>>
decvars == <<dec_in, dec_out>>
vars == <<callvars, decvars>>

Pending == [tag |-> "Pending", seg |-> <<>>]

InitCall ==
    /\ backend \in {"posix", "windows"}
    /\ required \in (IF backend = "posix" THEN {K32(0)} ELSE RequiredSizes)
    /\ reports \in (IF backend = "posix" THEN {FALSE} ELSE BOOLEAN)
    /\ pc = "start"
    /\ retcode = 0
    /\ ifaddrs = <<>>
    /\ idx = 0
    /\ aidx = 0
    /\ ret = <<>>
    /\ buffersize = K32(15000)
    /\ allocsize = K32(0)
    /\ acquired = 0
    /\ released = 0
    /\ live = 0
    /\ panic = ""

Init ==
    /\ InitCall
    /\ dec_in = NullPtr
    /\ dec_out = Pending

(***************************************************************************)
(* POSIX backend.                                                          *)
(***************************************************************************)
\* do_broadcast (both cfg variants read the same union slot)
do_broadcast(ifaddr) ==
    LET a == sockaddr_to_ipaddr(ifaddr.ifa_ifu)
    IN  IF a = None THEN Unspecified ELSE a

\* the flag tested with mask 1 (IFF_UP) in place of 2
BroadcastFlag_Mask1(flags) == BitAnd(flags, 1) # 0

\* ifa_flags & 2 /*IFF_BROADCAST*/ != 0
BroadcastFlag(flags) == BitAnd(flags, 2) # 0

\* item.netmask after the match on the decoded ifa_netmask
PosixNetmask(ifaddr) ==
    LET a == sockaddr_to_ipaddr(ifaddr.ifa_netmask)
    IN  IF a = None THEN Unspecified ELSE a

\* item.broadcast after the test of the flag
PosixBroadcast(ifaddr) ==
    IF BroadcastFlag(ifaddr.ifa_flags) THEN do_broadcast(ifaddr) ELSE Unspecified

\* the item pushed for a node whose name and address decode
PosixItem(ifaddr) ==
    IfAddr(CStrBytes(ifaddr.ifa_name), sockaddr_to_ipaddr(ifaddr.ifa_addr),
           PosixNetmask(ifaddr), PosixBroadcast(ifaddr))

\* what the uninitialized `ifaddrs` can point to when the OS stored nothing
GarbageLists == ListsUpTo(PosixRecords, 1)

\* posix_getifaddrs(&mut ifaddrs) and the test of its return code against -1
PosixCall ==
    /\ backend = "posix"
    /\ pc = "start"
    /\ \E rc \in PosixRetCodes :
        /\ retcode' = rc
        /\ IF rc = -1
           THEN /\ pc' = "panicked"
                /\ panic' = "failed to retrieve interface details from getifaddrs()"
                /\ UNCHANGED <<ifaddrs, acquired, live>>
           ELSE IF rc = 0
           THEN /\ pc' = "walk"
                /\ ifaddrs' \in ListsUpTo(PosixRecords, MaxLen)
                /\ acquired' = acquired + 1
                /\ live' = live + 1
                /\ UNCHANGED panic
           ELSE \/ /\ pc' = "walk"
                   /\ ifaddrs' \in GarbageLists
                   /\ UNCHANGED <<acquired, live, panic>>
                \/ /\ pc' = "crashed"
                   /\ panic' = "invalid pointer"
                   /\ UNCHANGED <<ifaddrs, acquired, live>>
    /\ UNCHANGED <<backend, required, reports, idx, aidx, ret, buffersize, allocsize,
                   released, decvars>>

\* one iteration of the while loop over the list
PosixWalk ==
    /\ backend = "posix"
    /\ pc = "walk"
    /\ idx < Len(ifaddrs)
    /\ idx' = idx + 1
    /\ LET ifaddr == ifaddrs[idx + 1]
       IN  IF ifaddr.ifa_addr.isnull
           THEN UNCHANGED <<pc, ret, panic>>
           ELSE IF ~Utf8Valid(CStrBytes(ifaddr.ifa_name), 1)
           THEN /\ pc' = "panicked"
                /\ panic' = "Utf8Error"
                /\ UNCHANGED ret
           ELSE IF sockaddr_to_ipaddr(ifaddr.ifa_addr) = None
           THEN UNCHANGED <<pc, ret, panic>>
           ELSE /\ ret' = Append(ret, PosixItem(ifaddr))
                /\ UNCHANGED <<pc, panic>>
    /\ UNCHANGED <<backend, required, reports, retcode, ifaddrs, aidx, buffersize,
                   allocsize, acquired, released, live, decvars>>

\* the loop ends: `_ifaddr` or its ifa_next is null
PosixWalkEnd ==
    /\ backend = "posix"
    /\ pc = "walk"
    /\ idx = Len(ifaddrs)
    /\ pc' = "free"
    /\ UNCHANGED <<backend, required, reports, retcode, ifaddrs, idx, aidx, ret,
                   buffersize, allocsize, acquired, released, live, panic, decvars>>

\* posix_freeifaddrs(ifaddrs); ret
PosixFree ==
    /\ backend = "posix"
    /\ pc = "free"
    /\ released' = released + 1
    /\ live' = IF live > 0 THEN live - 1 ELSE live
    /\ pc' = "done"
    /\ UNCHANGED <<backend, required, reports, retcode, ifaddrs, idx, aidx, ret,
                   buffersize, allocsize, acquired, panic, decvars>>

(***************************************************************************)
(* Windows backend.                                                        *)
(***************************************************************************)
\* the inline decoding of one lpSockaddr: None where the code `continue`s
WinDecode(sockaddr) ==
    IF sockaddr.isnull THEN None
    ELSE IF sockaddr.sa_family = AF_INET
         THEN IF And32(sockaddr.s_addr, K32(65535)) = K32(65193) \* 0xfea9
              THEN None
              ELSE OctetsOf(sockaddr.s_addr)
    ELSE IF sockaddr.sa_family = AF_INET6
         THEN IF sockaddr.s6_addr[1] = 33022 \* 0x80fe
              THEN None
              ELSE GroupsOf(sockaddr.s6_addr)
    ELSE None

\* the item pushed for a unicast address that survives
WinItem(adapter, sockaddr) ==
    IfAddr(CStrBytes(adapter.AdapterName), WinDecode(sockaddr), Unspecified, Unspecified)

\* libc::malloc(buffersize) and the test of its result
WinAlloc ==
    /\ backend = "windows"
    /\ pc \in {"start", "retry"}
    /\ acquired < MaxAllocs
    /\ \/ /\ pc' = "panicked"
          /\ panic' = "Failed to allocate buffer in getifaddrs()"
          /\ UNCHANGED <<allocsize, acquired, live>>
       \/ /\ pc' = "call"
          /\ allocsize' = buffersize
          /\ acquired' = acquired + 1
          /\ live' = live + 1
          /\ UNCHANGED panic
    /\ UNCHANGED <<backend, required, reports, retcode, ifaddrs, idx, aidx, ret,
                   buffersize, released, decvars>>

\* GetAdaptersAddresses(.., ifaddrs, &mut buffersize) and the match on retcode
WinCall ==
    /\ backend = "windows"
    /\ pc = "call"
    /\ \E rc \in {IF Geq32(buffersize, required) THEN ERROR_SUCCESS ELSE ERROR_BUFFER_OVERFLOW,
                  ERROR_OTHER} :
        /\ retcode' = rc
        /\ IF rc = ERROR_SUCCESS
           THEN /\ pc' = "walk"
                /\ ifaddrs' \in ListsUpTo(WinRecords, MaxLen)
                /\ UNCHANGED <<buffersize, released, live, panic>>
           ELSE IF rc = ERROR_BUFFER_OVERFLOW
           THEN LET reported == IF reports THEN required ELSE buffersize
                IN
                  \* the OS may have stored the size it needs in buffersize
                  /\ released' = released + 1
                  /\ live' = live - 1
                  /\ UNCHANGED ifaddrs
                  \* buffersize * 2: exact, or wrapped (a build without
                  \* overflow checks), or a panic (a build with them)
                  /\ IF ~DoubleOverflows(reported)
                     THEN /\ buffersize' = Double(reported)
                          /\ pc' = "retry"
                          /\ UNCHANGED panic
                     ELSE \/ /\ buffersize' = Double(reported)
                             /\ pc' = "retry"
                             /\ UNCHANGED panic
                          \/ /\ buffersize' = reported
                             /\ pc' = "panicked"
                             /\ panic' = "arithmetic overflow"
           ELSE /\ pc' = "panicked"
                /\ panic' = "GetAdaptersAddresses() failed"
                /\ UNCHANGED <<ifaddrs, buffersize, released, live>>
    /\ UNCHANGED <<backend, required, reports, idx, aidx, ret, allocsize, acquired,
                   decvars>>

\* one iteration of the loop over the adapters
WinAdapter ==
    /\ backend = "windows"
    /\ pc = "walk"
    /\ idx < Len(ifaddrs)
    /\ idx' = idx + 1
    /\ aidx' = 0
    /\ pc' = IF ifaddrs[idx + 1].FirstUnicastAddress = <<>> THEN "walk" ELSE "addr"
    /\ UNCHANGED <<backend, required, reports, retcode, ifaddrs, ret, buffersize,
                   allocsize, acquired, released, live, panic, decvars>>

\* the loop over the adapters ends
WinAdapterEnd ==
    /\ backend = "windows"
    /\ pc = "walk"
    /\ idx = Len(ifaddrs)
    /\ pc' = "free"
    /\ UNCHANGED <<backend, required, reports, retcode, ifaddrs, idx, aidx, ret,
                   buffersize, allocsize, acquired, released, live, panic, decvars>>

\* one iteration of the loop over the unicast addresses of an adapter
WinAddr ==
    /\ backend = "windows"
    /\ pc = "addr"
    /\ aidx < Len(ifaddrs[idx].FirstUnicastAddress)
    /\ aidx' = aidx + 1
    /\ LET adapter == ifaddrs[idx]
           sockaddr == adapter.FirstUnicastAddress[aidx + 1]
       IN  IF ~Utf8Valid(CStrBytes(adapter.AdapterName), 1)
           THEN /\ pc' = "panicked"
                /\ panic' = "Utf8Error"
                /\ UNCHANGED ret
           ELSE IF WinDecode(sockaddr) = None
           THEN UNCHANGED <<pc, ret, panic>>
           ELSE /\ ret' = Append(ret, WinItem(adapter, sockaddr))
                /\ UNCHANGED <<pc, panic>>
    /\ UNCHANGED <<backend, required, reports, retcode, ifaddrs, idx, buffersize,
                   allocsize, acquired, released, live, decvars>>

\* the loop over the unicast addresses ends
WinAddrEnd ==
    /\ backend = "windows"
    /\ pc = "addr"
    /\ aidx = Len(ifaddrs[idx].FirstUnicastAddress)
    /\ pc' = "walk"
    /\ UNCHANGED <<backend, required, reports, retcode, ifaddrs, idx, aidx, ret,
                   buffersize, allocsize, acquired, released, live, panic, decvars>>

\* libc::free(ifaddrs); ret
WinFree ==
    /\ backend = "windows"
    /\ pc = "free"
    /\ released' = released + 1
    /\ live' = live - 1
    /\ pc' = "done"
    /\ UNCHANGED <<backend, required, reports, retcode, ifaddrs, idx, aidx, ret,
                   buffersize, allocsize, acquired, panic, decvars>>

Next ==
    \/ PosixCall
    \/ PosixWalk
    \/ PosixWalkEnd
    \/ PosixFree
    \/ WinAlloc
    \/ WinCall
    \/ WinAdapter
    \/ WinAdapterEnd
    \/ WinAddr
    \/ WinAddrEnd
    \/ WinFree

Spec == Init /\ [][Next]_vars

\* the call is one sequential thread: while a step is possible it is taken
FairSpec == Spec /\ WF_vars(Next)

(***************************************************************************)
(* The sockaddr decoder on its own.                                        *)
(***************************************************************************)
\* the structures handed to the decoder
DecoderInputs ==
    {NullPtr, SockOther(17), SockOther(1), SockOther(0)}
    \cup { SockIn(InAddr(a, b, 1, d)) : a \in {0, 127, 169, 192}, b \in {0, 168, 254},
                                        d \in {0, 1, 255} }
    \cup { In6(g0, g1, g7) : g0 \in {0, 8193, 65152, 65168, 65535},
                             g1 \in {0, 3512, 255}, g7 \in {0, 1, 256} }

DecInit ==
    /\ dec_in \in DecoderInputs
    /\ dec_out = Pending
    /\ backend = "posix"
    /\ required = K32(0)
    /\ reports = FALSE
    /\ pc = "start"
    /\ retcode = 0
    /\ ifaddrs = <<>>
    /\ idx = 0
    /\ aidx = 0
    /\ ret = <<>>
    /\ buffersize = K32(15000)
    /\ allocsize = K32(0)
    /\ acquired = 0
    /\ released = 0
    /\ live = 0
    /\ panic = ""

\* a call of sockaddr_to_ipaddr
Decode ==
    /\ dec_out = Pending
    /\ dec_out' = sockaddr_to_ipaddr(dec_in)
    /\ UNCHANGED <<dec_in, callvars>>

\* the next argument
DecodeNext ==
    /\ dec_out # Pending
    /\ dec_in' \in DecoderInputs
    /\ dec_out' = Pending
    /\ UNCHANGED callvars

DecNext == Decode \/ DecodeNext

DecSpec == DecInit /\ [][DecNext]_vars

(***************************************************************************)
(* Properties.                                                             *)
(***************************************************************************)
\* the call returned normally
Returned == pc = "done"

\* the call is over, normally or not
Ended == pc \in {"done", "panicked", "crashed"}

\* the lpSockaddr / ifa_addr pointers of a list, in order
RECURSIVE AddrsOf(_, _)
AddrsOf(list, be) ==
    IF list = <<>> THEN <<>>
    ELSE (IF be = "posix" THEN <<Head(list).ifa_addr>>
                          ELSE Head(list).FirstUnicastAddress)
         \o AddrsOf(Tail(list), be)

\* the structure holds 127.0.0.1 or ::1, byte for byte
LoopbackInMemory(sa) ==
    /\ ~sa.isnull
    /\ \/ sa.sa_family = AF_INET /\ sa.s_addr = <<256, 127>>
       \/ sa.sa_family = AF_INET6 /\ sa.s6_addr = <<0, 0, 0, 0, 0, 0, 0, 256>>

IsLoopback(ip) ==
    \/ ip.tag = "V4" /\ ip.seg = <<127, 0, 0, 1>>
    \/ ip.tag = "V6" /\ ip.seg = <<0, 0, 0, 0, 0, 0, 0, 1>>

ListHasLoopback == \E i \in DOMAIN AddrsOf(ifaddrs, backend) : LoopbackInMemory(AddrsOf(ifaddrs, backend)[i])

\* C1: when the list the OS returned holds a record whose address is 127.0.0.1
\* or ::1, the vector getifaddrs() returns holds a record with such an addr,
\* wherever the record sits in the list.
C1_LoopbackReported ==
    (Returned /\ retcode = 0 /\ ListHasLoopback)
        => \E i \in DOMAIN ret : IsLoopback(ret[i].addr)

\* C1 witness: a returned call whose list has the loopback record last, after a
\* record that is not a loopback
C1_Witness ==
    /\ Returned
    /\ retcode = 0
    /\ Len(AddrsOf(ifaddrs, backend)) >= 2
    /\ ~LoopbackInMemory(AddrsOf(ifaddrs, backend)[1])
    /\ LoopbackInMemory(AddrsOf(ifaddrs, backend)[Len(AddrsOf(ifaddrs, backend))])
    /\ \E i \in DOMAIN ret : IsLoopback(ret[i].addr)

\* an IPv6 address in fe80::/10
LinkLocal6(ip) == ip.tag = "V6" /\ ip.seg[1] \div 64 = 1018

\* an IPv4 address in 169.254.0.0/16
LinkLocal4(ip) == ip.tag = "V4" /\ ip.seg[1] = 169 /\ ip.seg[2] = 254

\* C2: no record of the vector has an IPv6 addr in fe80::/10, on either backend.
C2_NoLinkLocal6 == \A i \in DOMAIN ret : ~LinkLocal6(ret[i].addr)

\* C3: no record of the vector has an IPv4 addr in 169.254.0.0/16, on either
\* backend.
C3_NoLinkLocal4 == \A i \in DOMAIN ret : ~LinkLocal4(ret[i].addr)

\* C4: every OS list or heap buffer obtained during a call is released exactly
\* once before the call ends, on every exit path; never two live at once,
\* nothing released that was not obtained.
C4_ReleasedOnEveryPath ==
    /\ live <= 1
    /\ released <= acquired
    /\ Ended => (live = 0 /\ released = acquired)

\* C5: a record whose address or name does not decode is dropped and the
\* enumeration goes on: no call ends in a failure raised by a record.
C5_MalformedDropped == panic # "Utf8Error"

\* C6: no record of the vector has an empty name or a name with a null byte.
C6_NameNonEmpty ==
    \A i \in DOMAIN ret :
        /\ ret[i].name # <<>>
        /\ \A k \in DOMAIN ret[i].name : ret[i].name[k] # 0

\* the decoder as the claim words it: the four stored bytes of s_addr in
\* storage order, the stored groups with their two bytes exchanged, no value
\* for a null pointer or another family
RefDecode(sa) ==
    IF sa.isnull THEN None
    ELSE IF sa.sa_family = AF_INET
         THEN V4(sa.s_addr[2] % 256, sa.s_addr[2] \div 256,
                 sa.s_addr[1] % 256, sa.s_addr[1] \div 256)
    ELSE IF sa.sa_family = AF_INET6
         THEN V6([i \in 1..8 |-> (sa.s6_addr[i] % 256) * 256 + sa.s6_addr[i] \div 256])
    ELSE None

C8_NonZeroIsFatal ==
    (backend = "posix" /\ retcode # 0) => pc \notin {"walk", "free", "done"}

\* the nodes of a POSIX list whose primary address decodes
Decodable(list) ==
    SelectSeq(list, LAMBDA n : sockaddr_to_ipaddr(n.ifa_addr) # None)

\* bit value 2 of the flags is set
FlagBit2(flags) == (flags \div 2) % 2 = 1

\* netmask and broadcast as the claim words them, for the node n and the item
NetmaskAndBroadcastOf(n, item) ==
    /\ item.addr = sockaddr_to_ipaddr(n.ifa_addr)
    /\ item.netmask = IF sockaddr_to_ipaddr(n.ifa_netmask) = None THEN V4(0, 0, 0, 0)
                      ELSE sockaddr_to_ipaddr(n.ifa_netmask)
    /\ item.broadcast = IF ~FlagBit2(n.ifa_flags) THEN V4(0, 0, 0, 0)
                        ELSE IF sockaddr_to_ipaddr(n.ifa_ifu) = None THEN V4(0, 0, 0, 0)
                        ELSE sockaddr_to_ipaddr(n.ifa_ifu)

\* C10: POSIX: every node whose primary address decodes yields a record, also
\* when its netmask does not decode (netmask 0.0.0.0 then); broadcast is
\* 0.0.0.0 when flag bit 2 is clear, else the decoded broadcast field, or
\* 0.0.0.0 when that does not decode.
C10_NetmaskBroadcast ==
    (backend = "posix" /\ Returned) =>
        /\ Len(ret) = Len(Decodable(ifaddrs))
        /\ \A k \in DOMAIN ret : NetmaskAndBroadcastOf(Decodable(ifaddrs)[k], ret[k])

\* C10 witness: a returned vector with a record whose netmask did not decode
\* and whose broadcast field is set while flag bit 2 is clear, and a record
\* whose broadcast was decoded
C10_Witness ==
    /\ backend = "posix"
    /\ Returned
    /\ retcode = 0
    /\ \E k \in DOMAIN ret :
        /\ ret[k].addr = V4(10, 0, 0, 3)
        /\ ifaddrs[k].ifa_netmask = SockOther(17)
        /\ ~ifaddrs[k].ifa_ifu.isnull
        /\ ret[k].netmask = V4(0, 0, 0, 0)
        /\ ret[k].broadcast = V4(0, 0, 0, 0)
    /\ \E k \in DOMAIN ret : ret[k].broadcast = V4(192, 168, 1, 255)

\* x is y * 2 computed in 32 bits
IsTwice32(x, y) ==
    /\ x[2] % 2 = 0
    /\ x[2] \div 2 + (x[1] % 2) * 32768 = y[2]
    /\ x[1] \div 2 = y[1] % 32768

\* x is y * 2 and the product fits 32 bits
IsTwice(x, y) == IsTwice32(x, y) /\ y[1] < 32768

\* the call is in the buffer loop
InLoop == backend = "windows" /\ pc \in {"start", "retry", "call"}

\* the step that handles a buffer-too-small result
RetryStep == backend = "windows" /\ pc = "call" /\ pc' = "retry"

\* a step that leaves the buffer loop
LeaveStep == backend = "windows" /\ pc \in {"start", "retry", "call"}
             /\ pc' \notin {"start", "retry", "call"}

\* the OS needs fewer than 2^31 bytes
RequiredBelow2G == required[1] < 32768

====
